---- MODULE Spec2Model ----
(***************************************************************************)
(* Backward paginator of PhotoService (s3.service.ts): the session cache   *)
(* photoCache, the cursor currentDate, the flags hasMorePhotos and         *)
(* isLoadingMore, and the asynchronous handlers getPhotosPage,             *)
(* loadMoreDaysFromS3 and clearCache, run against an unchanging object     *)
(* store.  Time is counted in slots; a UTC day has SlotsPerDay slots.      *)
(* The range fetch getPhotos and the incremental fetch getNewPhotosSince   *)
(* run against the same store through a paged lister (SpecFetch), and      *)
(* S3Service.getPresignedUrl runs against a clock (SpecUrl).  The view,    *)
(* PhotosComponent, drives the paginator and the incremental fetch         *)
(* (SpecView); PhotoGraphsComponent loads the metadata of its photos       *)
(* through MetadataService (SpecGraph).                                    *)
(***************************************************************************)
EXTENDS Integers, Sequences, FiniteSets, TLC

\* ------------------------------------------------------------------ bounds
HorizonDays == 1        \* the "two years back" horizon, in days
SlotsPerDay == 2        \* instants per UTC day
MaxObjects == 2         \* objects in the store
MaxCalls == 2           \* getPhotosPage calls that may overlap
MaxPageSize == 2
MaxPageIndex == 1

MaxKeys == 1            \* keys in one page of a listing (1000 in the code)
MaxBatches == 3         \* list calls followed in one bucket
TTL == 2                \* life of a cached URL (3600 * 1000 ms in the code)
MaxClock == 5           \* instants the clock of the URL cache runs through
MaxUrlCalls == 2        \* getPresignedUrl calls that may overlap
MaxGraphPhotos == 3     \* photos bound to the graph
BATCH_SIZE == 2         \* metadata lookups of one batch (5 in the code)
MaxRuns == 3            \* executions of loadMetadataProgressively that overlap
MaxChanges == 2         \* bindings of the photos input of the graph
MaxViewCalls == 1       \* getPhotosPage calls the view awaits at a time
MaxSignBatch == 1       \* URL generations one fetch is to have in flight (5)
MaxUptime == 2          \* uptime_seconds of a metadata object

\* The digits HHMMSS may denote more than a day's worth of time (\d{6}):
\* hour 48 and later is two days on.
MaxTime == 2 * SlotsPerDay
\* Today (UTC); day 0 lies beyond the horizon.
Today == HorizonDays + 1
\* new Date(): the last instant of today
Now == Today * SlotsPerDay + (SlotsPerDay - 1)

Calls == 1..MaxCalls
PageSizes == 1..MaxPageSize
PageIndexes == 0..MaxPageIndex

VARIABLES
  store,          \* the objects of the bucket folder (unchanging)
  photoCache,     \* PhotoService.photoCache
  currentDate,    \* PhotoService.currentDate (an instant)
  hasMorePhotos,  \* PhotoService.hasMorePhotos
  isLoadingMore,  \* PhotoService.isLoadingMore
  pc,             \* per call: "idle", "list" (awaiting listObjects) or
                  \* "sign" (awaiting the getPresignedUrl batch)
  frame,          \* per call: arguments and locals of the suspended call
  stale,          \* per call: clearCache ran while its grow was in flight
  ev,             \* the last step taken and what it returned
  hist,           \* the pages returned to a caller that asks in order
  PAGE_SIZE,      \* the page size the view asks with (unchanging)
  fetchPc,        \* the getPhotos / getNewPhotosSince call: "idle", "list",
                  \* "listAll", "sign", "done" or "failed"
  fetchFrame,     \* its arguments, locals and result
  clock,          \* Date.now() of the URL cache
  urlCache,       \* S3Service.urlCache, the entry of one key
  urlPc,          \* per getPresignedUrl call: "idle", "sign" (at its awaits)
                  \* or "overtaken" (at its awaits, clearCaches ran since)
  urlFrame,       \* per getPresignedUrl call: its local now
  urlEv,          \* the last step of the URL cache and what it returned
  cachedCredentials, \* CognitoAuthService.cachedCredentials: "null" or "set"
  view,           \* the fields of PhotosComponent
  waiting,        \* per getPhotosPage call, and for the fetch: the handler
                  \* of the view that awaits it
  isAuthenticated, \* AuthService.isAuthenticatedSubject
  viewEv,         \* the last step of the view: the handler that ran or
                  \* resumed and how its call settled
  graph,          \* the fields of PhotoGraphsComponent
  run,            \* per execution of loadMetadataProgressively: its locals
  metadataCache,  \* MetadataService.metadataCache: its <<key, value>> entries
  mdEv,           \* the last step of the graph and what it settled
  rangePager,     \* the date-range paginator of photo.service.ts: its cache
                  \* and the caller that follows its continuation tokens
  uptimeRun       \* one execution of loadMetadataProgressively with the
                  \* uptime of every photo: its photos and its locals

fetchVars == <<fetchPc, fetchFrame>>

urlVars == <<clock, urlCache, urlPc, urlFrame, urlEv, cachedCredentials>>

viewVars == <<view, waiting, isAuthenticated, viewEv>>

graphVars == <<graph, run, metadataCache, mdEv>>

rangeVars == <<rangePager>>

flagVars == <<uptimeRun>>

\* what the services leave alone when no component drives them
aside == <<fetchVars, urlVars, viewVars, graphVars, rangeVars, flagVars>>

vars == <<store, photoCache, currentDate, hasMorePhotos, isLoadingMore,
          pc, frame, stale, ev, hist, PAGE_SIZE, fetchVars, urlVars,
          viewVars, graphVars, rangeVars, flagVars>>

\* ------------------------------------------------------------- the store
\* An object key: <folder>/cat_<date>_<time>.jpg, or its .json sidecar, or
\* (lead) <folder>/cat_<date>_old_cat_<date>_<time>.jpg, which the date
\* prefix lists as well.  Times are the valid ones and MaxTime, which
\* carries over two days; one sidecar and one key with leading characters
\* are enough to have them in a listing.
ObjectKeys == {o \in [date : 0..Today, time : 0..MaxTime,
                      jpg : BOOLEAN, lead : BOOLEAN] :
                 /\ o.time < SlotsPerDay \/ o.time = MaxTime
                 /\ o.lead => o.jpg
                 /\ (o.jpg /\ ~o.lead) \/ (o.time = 0 /\ o.date = Today)}

Stores == {s \in SUBSET ObjectKeys : Cardinality(s) <= MaxObjects}

\* PHOTO_PATTERN.test(fileName): the pattern is anchored at the end of the
\* basename only, so leading characters do not keep it from matching
PHOTO_PATTERN(o) == o.jpg

\* parseFileName: Date.UTC(year, month, day, hour, minute, second) of the
\* captured digits; Date.UTC carries an out-of-range field over.
parseFileName(o) ==
  IF PHOTO_PATTERN(o) THEN o.date * SlotsPerDay + o.time ELSE -1

\* getUTCFullYear/getUTCMonth/getUTCDate of an instant: its UTC day
UTCDay(t) == t \div SlotsPerDay

\* initCurrentDate: today (UTC) at 23:59:59
initCurrentDate == UTCDay(Now) * SlotsPerDay + (SlotsPerDay - 1)

\* lexical order of two keys under one date prefix
KeyBefore(a, b) ==
  IF a.lead # b.lead THEN b.lead
  ELSE \/ a.time < b.time
       \/ a.time = b.time /\ a.jpg /\ ~b.jpg

RECURSIVE InKeyOrder(_)
InKeyOrder(S) ==
  IF S = {} THEN <<>>
  ELSE LET m == CHOOSE x \in S : \A y \in S \ {x} : KeyBefore(x, y)
       IN <<m>> \o InKeyOrder(S \ {m})

\* listObjects(prefix): the Contents of the listing of one date prefix, in
\* key order; a day's keys fit one list page (MaxKeys 1000)
listObjects(prefix) == InKeyOrder({o \in store : o.date = prefix})

\* ---------------------------------------------------------------- lister
\* The keys of one date prefix from position from on, at most n of them
RECURSIVE TakeKeys(_, _, _)
TakeKeys(keys, from, n) ==
  IF n = 0 \/ from >= Len(keys) THEN <<>>
  ELSE <<keys[from + 1]>> \o TakeKeys(keys, from + 1, n - 1)

\* client.send(new ListObjectsV2Command({Prefix, MaxKeys, ContinuationToken})):
\* one page of the keys of the prefix, in key order.  The token is the
\* number of keys the earlier pages returned; 0 stands for undefined.
ListObjectsV2(prefix, maxKeys, token) ==
  LET keys == InKeyOrder({o \in store : o.date = prefix})
      page == TakeKeys(keys, token, maxKeys)
      more == token + Len(page) < Len(keys)
  IN [Contents |-> page,
      IsTruncated |-> more,
      NextContinuationToken |-> IF more THEN token + Len(page) ELSE 0,
      ContinuationToken |-> token]

\* S3Service.listObjects(prefix?, maxKeys?): the method declares two
\* parameters and builds the command from them; a third argument handed in
\* by a caller does not reach the command.
S3Service_listObjects(prefix, maxKeys, continuationToken) ==
  ListObjectsV2(prefix, maxKeys, 0)

\* ------------------------------------------------------------- date prefixes
\* the while loop of getDatePrefixes, comparing exclusively
RECURSIVE PrefixLoopExclusive(_, _)
PrefixLoopExclusive(current, end) ==
  IF current < end
  THEN <<UTCDay(current)>> \o PrefixLoopExclusive(current + SlotsPerDay, end)
  ELSE <<>>

\* while (current <= end) { push the prefix of current; current += 1 day }
RECURSIVE PrefixLoop(_, _)
PrefixLoop(current, end) ==
  IF current <= end
  THEN <<UTCDay(current)>> \o PrefixLoop(current + SlotsPerDay, end)
  ELSE <<>>

\* setUTCDate(getUTCDate() + days); setUTCHours(0, 0, 0, 0)
MidnightOfDay(t, days) == (UTCDay(t) + days) * SlotsPerDay

\* getDatePrefixes with the loop ending a day early
getDatePrefixesExclusive(startDate, endDate) ==
  PrefixLoopExclusive(MidnightOfDay(startDate, -1), MidnightOfDay(endDate, 1))

\* getDatePrefixes with two days of slack before the range
getDatePrefixesWide(startDate, endDate) ==
  PrefixLoop(MidnightOfDay(startDate, -2), MidnightOfDay(endDate, 1))

\* getDatePrefixes(startDate, endDate): a prefix is written as its day
getDatePrefixes(startDate, endDate) ==
  PrefixLoop(MidnightOfDay(startDate, -1), MidnightOfDay(endDate, 1))

\* ----------------------------------------------------------- array helpers
\* dayObjects.filter(obj => PHOTO_PATTERN.test(fileName))
RECURSIVE PhotoObjects(_)
PhotoObjects(s) ==
  IF s = <<>> THEN <<>>
  ELSE (IF PHOTO_PATTERN(Head(s)) THEN <<Head(s)>> ELSE <<>>)
       \o PhotoObjects(Tail(s))

\* the url of a Photo whose getPresignedUrl has not answered yet
Unsigned == -1

\* the Photo built from a listed object (size left out); a URL is written
\* as the instant it was generated at
MakePhoto(o) ==
  [key |-> o, timestamp |-> parseFileName(o), url |-> Unsigned]

\* url: await this.s3Service.getPresignedUrl(obj.Key), for every photo of a
\* batch that has answered by now
RECURSIVE SignAll(_, _)
SignAll(s, now) ==
  IF s = <<>> THEN <<>>
  ELSE <<[Head(s) EXCEPT !.url = now]>> \o SignAll(Tail(s), now)

RECURSIVE MapPhotos(_)
MapPhotos(s) ==
  IF s = <<>> THEN <<>> ELSE <<MakePhoto(Head(s))>> \o MapPhotos(Tail(s))

\* the filter that keeps every element
KeepAll(s, seen) == s

\* photoCache.filter(photo => !seen.has(photo.key) ...): first occurrence kept
RECURSIVE Dedup(_, _)
Dedup(s, seen) ==
  IF s = <<>> THEN <<>>
  ELSE IF Head(s).key \in seen THEN Dedup(Tail(s), seen)
  ELSE <<Head(s)>> \o Dedup(Tail(s), seen \cup {Head(s).key})

\* insert p after every element that does not sort after it (stable)
RECURSIVE InsertDesc(_, _)
InsertDesc(s, p) ==
  IF s = <<>> THEN <<p>>
  ELSE IF Head(s).timestamp >= p.timestamp
       THEN <<Head(s)>> \o InsertDesc(Tail(s), p)
       ELSE <<p>> \o s

\* the array left in the order of arrival
Unsorted(s) == s

\* photoCache.sort((a, b) => b.timestamp - a.timestamp): stable, descending
RECURSIVE SortDesc(_)
SortDesc(s) ==
  IF s = <<>> THEN <<>>
  ELSE InsertDesc(SortDesc(SubSeq(s, 1, Len(s) - 1)), s[Len(s)])

\* array.slice(from, to), 0-based and clipped to the array
Slice(s, from, to) ==
  LET hi == IF to < Len(s) THEN to ELSE Len(s)
  IN IF from >= hi THEN <<>> ELSE SubSeq(s, from + 1, hi)

\* ------------------------------------------------------------------ events
NoEv == [op |-> "none", invoke |-> FALSE, pageSize |-> 0, pageIndex |-> 0,
         photos |-> <<>>, hasMore |-> FALSE, prefix |-> 0,
         grown |-> FALSE, found |-> 0, dropped |-> 0, stale |-> FALSE,
         repeat |-> FALSE, bucket |-> 0, before |-> <<>>]

NoFrame == [pageSize |-> 0, pageIndex |-> 0, prefix |-> 0, newPhotos |-> <<>>,
            before |-> <<>>, dayObjects |-> <<>>, continuationToken |-> 0]

NoHist == [next |-> 0, out |-> <<>>]

\* an argument left out of a call
Undefined == -1

\* the instants a caller passes as startDate, endDate or sinceTimestamp
ArgInstants == 0..((Today + 1) * SlotsPerDay + SlotsPerDay - 1)

NoFetch == [op |-> "none", startDate |-> 0, endDate |-> 0, prefixes |-> <<>>,
            ix |-> 0, continuationToken |-> 0, batchCount |-> 0,
            held |-> 0, sent |-> 0,
            allObjects |-> <<>>, filteredObjects |-> <<>>, photos |-> <<>>]

UrlCalls == 1..MaxUrlCalls

\* urlCache.get(key) of a key never cached
NoUrl == [url |-> -1, expires |-> 0]

NoUrlEv == [op |-> "none", url |-> -1]

\* the fields of a PhotosComponent as declared; selectedPhoto is a list of
\* no photo (null) or one
NoView == [photos |-> <<>>, selectedPhoto |-> <<>>, loading |-> FALSE,
           refreshing |-> FALSE, error |-> "null", isAuthError |-> FALSE,
           startDate |-> Undefined, endDate |-> Undefined,
           currentPage |-> 0, hasMorePhotos |-> TRUE, loadMore |-> FALSE]

\* no handler awaits
Nobody == [handler |-> "none", range |-> <<>>]

\* init: the component is constructed and its ngOnInit is still to run
NoWaiting == [page |-> [c \in Calls |-> Nobody], fetch |-> Nobody,
              init |-> TRUE]

NoViewEv == [op |-> "none", handler |-> "none", range |-> <<>>]

Runs == 1..MaxRuns

\* this.chart of a graph whose chart is null
NoChart == -1

\* the fields of a PhotoGraphsComponent as declared; photos are written as
\* their keys, the chart as the number of points it last received, a
\* warning as <<failedCount, photos.length>>; timers are the setTimeout
\* callbacks not yet run, changes the bindings of photos so far
NoGraph == [photos |-> <<>>, chart |-> NoChart, timers |-> <<>>,
            changes |-> 0, loading |-> FALSE, error |-> "null",
            warning |-> <<>>]

NoRun == [pc |-> "idle", i |-> 0, batch |-> <<>>, results |-> <<>>,
          dataPoints |-> 0, failedCount |-> 0]

NoMdEv == [op |-> "none", key |-> 0, outcome |-> "none", result |-> "none",
           finished |-> <<>>]

\* The date-range paginator as constructed (photoCache, cacheStartDate and
\* cacheEndDate null), with no call made: cached tells photoCache from
\* null; startDate, endDate and token are the arguments of the caller, b
\* and e the range of the suspended call, first the range of the first
\* call, out the pages returned so far, listings the getPhotos calls made.
\* A token is a string of decimal digits, the empty string for none.
NoRangePager == [cached |-> FALSE, photoCache |-> <<>>,
                 cacheStartDate |-> -1, cacheEndDate |-> -1,
                 pc |-> "idle", startDate |-> -1, endDate |-> -1,
                 pageSize |-> 1, token |-> <<>>, b |-> 0, e |-> 0,
                 first |-> {}, out |-> <<>>, listings |-> 0]

\* no execution of loadMetadataProgressively under way: photos is the bound
\* list, metadata what getMetadata returns for each photo (its
\* uptime_seconds, or Undefined for null), and i, dataPoints and
\* previousUptime are the locals
NoUptimeRun == [pc |-> "idle", photos |-> <<>>, metadata |-> <<>>, i |-> 0,
                dataPoints |-> <<>>, previousUptime |-> Undefined]

Init ==
  /\ store \in Stores
  /\ photoCache = <<>>
  /\ currentDate = initCurrentDate
  /\ hasMorePhotos = TRUE
  /\ isLoadingMore = FALSE
  /\ pc = [c \in Calls |-> "idle"]
  /\ frame = [c \in Calls |-> NoFrame]
  /\ stale = [c \in Calls |-> FALSE]
  /\ ev = NoEv
  /\ hist = NoHist
  /\ PAGE_SIZE \in PageSizes
  /\ fetchPc = "idle"
  /\ fetchFrame = NoFetch
  /\ clock = 0
  /\ urlCache = NoUrl
  /\ urlPc = [c \in UrlCalls |-> "idle"]
  /\ urlFrame = [c \in UrlCalls |-> 0]
  /\ urlEv = NoUrlEv
  /\ cachedCredentials = "null"
  /\ view = NoView
  /\ waiting = NoWaiting
  /\ isAuthenticated = TRUE
  /\ viewEv = NoViewEv
  /\ graph = NoGraph
  /\ run = [r \in Runs |-> NoRun]
  /\ metadataCache = {}
  /\ mdEv = NoMdEv
  /\ rangePager = NoRangePager
  /\ uptimeRun = NoUptimeRun

\* ------------------------------------------------------------ getPhotosPage
\* the loop test with the cache length compared inclusively
LoopCondInclusive(cache, more, loading, pageSize, pageIndex) ==
  /\ Len(cache) <= pageIndex * pageSize + pageSize
  /\ more
  /\ ~loading

\* the condition of the while loop of getPhotosPage
LoopCond(cache, more, loading, pageSize, pageIndex) ==
  /\ Len(cache) < pageIndex * pageSize + pageSize
  /\ more
  /\ ~loading

\* hasMore of the returned page
PageHasMore(cache, more, pageSize, pageIndex) ==
  pageIndex * pageSize + pageSize < Len(cache) \/ more

\* the page cut out of the cache
PagePhotos(cache, pageSize, pageIndex) ==
  Slice(cache, pageIndex * pageSize, pageIndex * pageSize + pageSize)

\* what is left of the array once the page is taken out with splice
ArrayAfterSplice(cache, from, to) ==
  Slice(cache, 0, from) \o Slice(cache, to, Len(cache))

\* the array after photoCache.slice(from, to): slice copies, the array stays
ArrayAfterSlice(cache, from, to) == cache

\* One turn of getPhotosPage from its loop test to its next suspension, on
\* the paginator state <<cache, date, more, loading>>: either
\* loadMoreDaysFromS3 runs up to its first list call, or the page is cut out
\* of the cache and returned.  e carries what the turn did before the test,
\* st which grows a reset has overtaken.
PageTurnFrom(c, cache, date, more, loading, st, pageSize, pageIndex, e) ==
  /\ currentDate' = date
  /\ hasMorePhotos' = more
  /\ stale' = [st EXCEPT ![c] = FALSE]
  /\ UNCHANGED <<store, PAGE_SIZE>>
  /\ IF LoopCond(cache, more, loading, pageSize, pageIndex)
     THEN \* loadMoreDaysFromS3, up to the await of listObjects
          /\ ~(loading \/ ~more)
          /\ photoCache' = cache
          /\ isLoadingMore' = TRUE
          /\ pc' = [pc EXCEPT ![c] = "list"]
          /\ frame' = [frame EXCEPT ![c] =
                         [pageSize |-> pageSize, pageIndex |-> pageIndex,
                          prefix |-> UTCDay(date), newPhotos |-> <<>>,
                          before |-> <<cache, date, more>>,
                          dayObjects |-> <<>>, continuationToken |-> 0]]
          /\ ev' = [e EXCEPT !.op = "list", !.pageSize = pageSize,
                             !.pageIndex = pageIndex, !.prefix = UTCDay(date)]
     ELSE /\ photoCache' = ArrayAfterSlice(cache, pageIndex * pageSize,
                                           pageIndex * pageSize + pageSize)
          /\ isLoadingMore' = loading
          /\ pc' = [pc EXCEPT ![c] = "idle"]
          /\ frame' = [frame EXCEPT ![c] = NoFrame]
          /\ ev' = [e EXCEPT !.op = "return", !.pageSize = pageSize,
                             !.pageIndex = pageIndex,
                             !.photos = PagePhotos(cache, pageSize, pageIndex),
                             !.hasMore = PageHasMore(cache, more, pageSize,
                                                     pageIndex)]

PageTurn(c, cache, date, more, loading, pageSize, pageIndex, e) ==
  PageTurnFrom(c, cache, date, more, loading, stale, pageSize, pageIndex, e)

\* a caller invokes getPhotosPage(pageSize, pageIndex); the call takes the
\* first free slot
GetPhotosPage(c, pageSize, pageIndex) ==
  /\ pc[c] = "idle"
  /\ \A d \in Calls : d < c => pc[d] # "idle"
  /\ PageTurn(c, photoCache, currentDate, hasMorePhotos, isLoadingMore,
              pageSize, pageIndex,
              [NoEv EXCEPT !.invoke = TRUE,
                           !.repeat = /\ ev.op = "return"
                                      /\ ev.pageSize = pageSize
                                      /\ ev.pageIndex = pageIndex])

\* ------------------------------------------------------- loadMoreDaysFromS3
\* the horizon test that also stops on a day without photos
HorizonCheckOrEmptyDay(moved, more, found) ==
  IF moved < Now - HorizonDays * SlotsPerDay \/ found = 0 THEN FALSE ELSE more

\* "Stop if we've gone back too far": the flag after the cursor moved
HorizonCheck(moved, more, found) ==
  IF moved < Now - HorizonDays * SlotsPerDay THEN FALSE ELSE more

\* the cache replaced by the photos of the bucket
MergeReplacing(cache, newPhotos) == SortDesc(Dedup(newPhotos, {}))

\* append, deduplicate by key, sort newest first
MergeIntoCache(cache, newPhotos) == SortDesc(Dedup(cache \o newPhotos, {}))

\* The synchronous tail of loadMoreDaysFromS3 once the URLs are there (the
\* finally block releases the flag), followed in the same turn of the event
\* loop by the loop test of the getPhotosPage that awaited it.
GrowTail(c, newPhotos) ==
  PageTurn(c,
           MergeIntoCache(photoCache, newPhotos),
           currentDate - SlotsPerDay,
           HorizonCheck(currentDate - SlotsPerDay, hasMorePhotos,
                        Len(newPhotos)),
           FALSE,
           frame[c].pageSize, frame[c].pageIndex,
           [NoEv EXCEPT !.grown = TRUE, !.found = Len(newPhotos),
                        !.dropped = Len(photoCache) + Len(newPhotos)
                                    - Len(MergeIntoCache(photoCache, newPhotos)),
                        !.stale = stale[c], !.bucket = frame[c].prefix])

\* the list call answers; with no photo in the bucket Promise.all([]) does
\* not wait for the network and the tail runs at once
ListReturn(c) ==
  /\ pc[c] = "list"
  /\ LET photoObjects == PhotoObjects(listObjects(frame[c].prefix))
     IN IF photoObjects = <<>>
        THEN GrowTail(c, <<>>)
        ELSE /\ pc' = [pc EXCEPT ![c] = "sign"]
             /\ frame' = [frame EXCEPT ![c].newPhotos = MapPhotos(photoObjects)]
             /\ ev' = [NoEv EXCEPT !.op = "listed", !.prefix = frame[c].prefix]
             /\ UNCHANGED <<store, photoCache, currentDate, hasMorePhotos,
                            isLoadingMore, stale, PAGE_SIZE>>

\* every getPresignedUrl of the batch has answered
SignDone(c) ==
  /\ pc[c] = "sign"
  /\ GrowTail(c, SignAll(frame[c].newPhotos, clock))

\* a list call or a URL generation throws: catch rethrows, finally releases
\* the flag, getPhotosPage rejects
GrowFail(c) ==
  /\ pc[c] \in {"list", "sign"}
  /\ isLoadingMore' = FALSE
  /\ pc' = [pc EXCEPT ![c] = "idle"]
  /\ frame' = [frame EXCEPT ![c] = NoFrame]
  /\ stale' = [stale EXCEPT ![c] = FALSE]
  /\ ev' = [NoEv EXCEPT !.op = "reject", !.pageSize = frame[c].pageSize,
                        !.pageIndex = frame[c].pageIndex, !.stale = stale[c],
                        !.bucket = frame[c].prefix,
                        !.before = frame[c].before]
  /\ UNCHANGED <<store, photoCache, currentDate, hasMorePhotos, PAGE_SIZE>>

\* --------------------------------------------------------------- clearCache
ClearCache ==
  /\ photoCache' = <<>>
  /\ currentDate' = initCurrentDate
  /\ hasMorePhotos' = TRUE
  /\ isLoadingMore' = FALSE
  /\ stale' = [c \in Calls |-> pc[c] \in {"list", "sign"}]
  /\ ev' = [NoEv EXCEPT !.op = "clear"]
  /\ UNCHANGED <<store, pc, frame, PAGE_SIZE>>

\* ----------------------------------------------------------- specification
Next ==
  \/ \E c \in Calls, pageIndex \in PageIndexes :
        /\ GetPhotosPage(c, PAGE_SIZE, pageIndex)
        /\ UNCHANGED <<hist, aside>>
  \/ \E c \in Calls : ListReturn(c) /\ UNCHANGED <<hist, aside>>
  \/ \E c \in Calls : SignDone(c) /\ UNCHANGED <<hist, aside>>
  \/ \E c \in Calls : GrowFail(c) /\ UNCHANGED <<hist, aside>>
  \/ ClearCache /\ UNCHANGED <<hist, aside>>

Spec == Init /\ [][Next]_vars

\* One caller that asks for page 0, 1, 2, ... in order, each call after the
\* previous one has returned, and never resets; a rejected call is retried.
HistStep ==
  hist' = IF ev'.op = "return"
          THEN [next |-> hist.next + 1, out |-> hist.out \o ev'.photos]
          ELSE hist

NextInOrder ==
  \/ /\ hist.next \in PageIndexes
     /\ GetPhotosPage(1, PAGE_SIZE, hist.next)
     /\ HistStep
     /\ UNCHANGED aside
  \/ ListReturn(1) /\ HistStep /\ UNCHANGED aside
  \/ SignDone(1) /\ HistStep /\ UNCHANGED aside
  \/ GrowFail(1) /\ HistStep /\ UNCHANGED aside

SpecInOrder == Init /\ [][NextInOrder]_vars

\* ------------------------------------- the listing loop of loadMoreDaysFromS3
\* dayObjects.push(...response.Contents); the array is followed no further
\* than MaxBatches pages
PushPage(dayObjects, contents) ==
  IF Len(dayObjects) < MaxBatches * MaxKeys
  THEN dayObjects \o contents
  ELSE dayObjects

\* A list call of the while (true) loop of loadMoreDaysFromS3 answers, for
\* buckets of any size: a truncated page with a token sends the loop round
\* again, the last page ends it and the grow goes on as in ListReturn.
ListPageReturn(c) ==
  /\ pc[c] = "list"
  /\ LET response == S3Service_listObjects(frame[c].prefix, MaxKeys,
                                           frame[c].continuationToken)
         dayObjects == PushPage(frame[c].dayObjects, response.Contents)
         photoObjects == PhotoObjects(dayObjects)
     IN IF response.IsTruncated /\ response.NextContinuationToken # 0
        THEN /\ frame' = [frame EXCEPT
                            ![c].dayObjects = dayObjects,
                            ![c].continuationToken =
                               response.NextContinuationToken]
             /\ ev' = [NoEv EXCEPT !.op = "truncated",
                                   !.prefix = frame[c].prefix]
             /\ UNCHANGED <<store, photoCache, currentDate, hasMorePhotos,
                            isLoadingMore, pc, stale, PAGE_SIZE>>
        ELSE IF photoObjects = <<>>
        THEN GrowTail(c, <<>>)
        ELSE /\ pc' = [pc EXCEPT ![c] = "sign"]
             /\ frame' = [frame EXCEPT ![c].newPhotos = MapPhotos(photoObjects)]
             /\ ev' = [NoEv EXCEPT !.op = "listed", !.prefix = frame[c].prefix]
             /\ UNCHANGED <<store, photoCache, currentDate, hasMorePhotos,
                            isLoadingMore, stale, PAGE_SIZE>>

\* Callers that overlap and reset as in Next, with list calls and URL
\* generations that always answer, and answer in the end
NextLive ==
  \/ \E c \in Calls, pageIndex \in PageIndexes :
        /\ GetPhotosPage(c, PAGE_SIZE, pageIndex)
        /\ UNCHANGED <<hist, aside>>
  \/ \E c \in Calls : ListPageReturn(c) /\ UNCHANGED <<hist, aside>>
  \/ \E c \in Calls : SignDone(c) /\ UNCHANGED <<hist, aside>>
  \/ ClearCache /\ UNCHANGED <<hist, aside>>

Answers ==
  \A c \in Calls : /\ WF_vars(ListPageReturn(c) /\ UNCHANGED <<hist, aside>>)
                   /\ WF_vars(SignDone(c) /\ UNCHANGED <<hist, aside>>)

SpecLive == Init /\ [][NextLive]_vars /\ Answers

\* ------------------------------------------------- getPhotos (range fetch)
pagerVars == <<photoCache, currentDate, hasMorePhotos, isLoadingMore,
               pc, frame, stale, ev, hist>>

\* the range test that lets every timestamp through
InRangeAlways(timestamp, startDate, endDate) == TRUE

\* timestamp >= startDate && timestamp <= endDate
InRange(timestamp, startDate, endDate) ==
  timestamp >= startDate /\ timestamp <= endDate

\* allObjects.filter(...) of getPhotos: pattern, then the exact range
RECURSIVE RangeObjects(_, _, _)
RangeObjects(s, startDate, endDate) ==
  IF s = <<>> THEN <<>>
  ELSE (IF /\ PHOTO_PATTERN(Head(s))
           /\ InRange(parseFileName(Head(s)), startDate, endDate)
        THEN <<Head(s)>> ELSE <<>>)
       \o RangeObjects(Tail(s), startDate, endDate)

\* the end of a fetch once its objects are filtered: Promise.all over no
\* photo does not wait, otherwise the URL batch is awaited
FetchFiltered(f, all, filtered) ==
  /\ fetchFrame' = [f EXCEPT !.allObjects = all, !.filteredObjects = filtered]
  /\ fetchPc' = IF filtered = <<>> THEN "done" ELSE "sign"

\* getPhotos(startDate?, endDate?) up to its first list call.  A fetch
\* keeps nothing from one call to the next, so a behaviour follows one call.
GetPhotos(startDate, endDate) ==
  /\ fetchPc = "idle"
  /\ LET e == IF endDate = Undefined THEN Now ELSE endDate
         b == IF startDate = Undefined THEN e - SlotsPerDay ELSE startDate
         prefixes == getDatePrefixes(b, e)
         f == [NoFetch EXCEPT !.op = "getPhotos", !.startDate = b,
                              !.endDate = e, !.prefixes = prefixes, !.ix = 1]
     IN IF prefixes = <<>>
        THEN FetchFiltered(f, <<>>, <<>>)
        ELSE /\ fetchFrame' = f
             /\ fetchPc' = "list"
  /\ UNCHANGED <<store, PAGE_SIZE, pagerVars, urlVars>>

\* a list call of the per-prefix loop of getPhotos answers
FetchListReturn ==
  /\ fetchPc = "list"
  /\ fetchFrame.batchCount < MaxBatches
  /\ LET f == fetchFrame
         response == S3Service_listObjects(f.prefixes[f.ix], MaxKeys,
                                           f.continuationToken)
         all == f.allObjects \o response.Contents
         g == [f EXCEPT !.allObjects = all,
                        !.batchCount = f.batchCount + 1,
                        !.held = f.continuationToken,
                        !.sent = response.ContinuationToken]
     IN IF response.IsTruncated /\ response.NextContinuationToken # 0
        THEN /\ fetchFrame' = [g EXCEPT !.continuationToken =
                                          response.NextContinuationToken]
             /\ fetchPc' = "list"
        ELSE IF f.ix < Len(f.prefixes)
        THEN /\ fetchFrame' = [g EXCEPT !.ix = f.ix + 1,
                                        !.continuationToken = 0,
                                        !.batchCount = 0]
             /\ fetchPc' = "list"
        ELSE FetchFiltered(g, all, RangeObjects(all, f.startDate, f.endDate))
  /\ UNCHANGED <<store, PAGE_SIZE, pagerVars, urlVars>>

\* every getPresignedUrl of the fetch has answered: map, sort, return
FetchSignDone ==
  /\ fetchPc = "sign"
  /\ fetchFrame' = [fetchFrame EXCEPT !.photos =
                      SortDesc(SignAll(MapPhotos(fetchFrame.filteredObjects),
                                       clock))]
  /\ fetchPc' = "done"
  /\ UNCHANGED <<store, PAGE_SIZE, pagerVars, urlVars>>

\* a list call or a URL generation of the fetch throws: the fetch rejects
FetchFail ==
  /\ fetchPc \in {"list", "listAll", "sign"}
  /\ fetchPc' = "failed"
  /\ UNCHANGED <<fetchFrame, store, PAGE_SIZE, pagerVars, urlVars>>

\* ------------------------------------------------------- getNewPhotosSince
\* the test that keeps the boundary photo
NewerOrEqual(timestamp, sinceTimestamp, now) ==
  timestamp >= sinceTimestamp /\ timestamp <= now

\* timestamp > sinceTimestamp && timestamp <= now
NewerThan(timestamp, sinceTimestamp, now) ==
  timestamp > sinceTimestamp /\ timestamp <= now

RECURSIVE NewObjects(_, _, _)
NewObjects(s, sinceTimestamp, now) ==
  IF s = <<>> THEN <<>>
  ELSE (IF /\ PHOTO_PATTERN(Head(s))
           /\ NewerThan(parseFileName(Head(s)), sinceTimestamp, now)
        THEN <<Head(s)>> ELSE <<>>)
       \o NewObjects(Tail(s), sinceTimestamp, now)

\* listObjectsWithPrefixes(prefixes, 1000) and the flatMap of the Contents:
\* one listObjects(prefix, maxKeysPerPrefix) per prefix
RECURSIVE listObjectsWithPrefixes(_, _)
listObjectsWithPrefixes(prefixes, maxKeysPerPrefix) ==
  IF prefixes = <<>> THEN <<>>
  ELSE S3Service_listObjects(Head(prefixes), maxKeysPerPrefix, 0).Contents
       \o listObjectsWithPrefixes(Tail(prefixes), maxKeysPerPrefix)

\* getNewPhotosSince(sinceTimestamp) up to the await of the listings
GetNewPhotosSince(sinceTimestamp) ==
  /\ fetchPc = "idle"
  /\ fetchFrame' = [NoFetch EXCEPT !.op = "getNewPhotosSince",
                                   !.startDate = sinceTimestamp,
                                   !.endDate = Now,
                                   !.prefixes =
                                      getDatePrefixes(sinceTimestamp, Now)]
  /\ fetchPc' = "listAll"
  /\ UNCHANGED <<store, PAGE_SIZE, pagerVars, urlVars>>

\* the listings of all prefixes have answered
FetchListAllReturn ==
  /\ fetchPc = "listAll"
  /\ LET f == fetchFrame
         all == listObjectsWithPrefixes(f.prefixes, MaxKeys)
     IN FetchFiltered(f, all, NewObjects(all, f.startDate, f.endDate))
  /\ UNCHANGED <<store, PAGE_SIZE, pagerVars, urlVars>>

InitFetch == Init /\ PAGE_SIZE = MaxPageSize

NextFetch ==
  \/ \E startDate, endDate \in ArgInstants \cup {Undefined} :
        GetPhotos(startDate, endDate) /\ UNCHANGED <<viewVars, graphVars, rangeVars, flagVars>>
  \/ \E sinceTimestamp \in ArgInstants :
        GetNewPhotosSince(sinceTimestamp) /\ UNCHANGED <<viewVars, graphVars, rangeVars, flagVars>>
  \/ FetchListReturn /\ UNCHANGED <<viewVars, graphVars, rangeVars, flagVars>>
  \/ FetchListAllReturn /\ UNCHANGED <<viewVars, graphVars, rangeVars, flagVars>>
  \/ FetchSignDone /\ UNCHANGED <<viewVars, graphVars, rangeVars, flagVars>>
  \/ FetchFail /\ UNCHANGED <<viewVars, graphVars, rangeVars, flagVars>>

SpecFetch == InitFetch /\ [][NextFetch]_vars

\* ---------------------------------------------------------- getPresignedUrl
\* cached && cached.expires > now
CacheFresh(cached, now) == cached # NoUrl /\ cached.expires > now

\* getPresignedUrl(key) up to its return or its first await.  A URL is
\* written as the instant it was signed at.
GetPresignedUrl(c) ==
  /\ urlPc[c] = "idle"
  /\ \A d \in UrlCalls : d < c => urlPc[d] # "idle"
  /\ IF CacheFresh(urlCache, clock)
     THEN /\ urlEv' = [op |-> "hit", url |-> urlCache.url]
          /\ UNCHANGED <<urlPc, urlFrame>>
     ELSE /\ urlPc' = [urlPc EXCEPT ![c] = "sign"]
          /\ urlFrame' = [urlFrame EXCEPT ![c] = clock]
          /\ urlEv' = [op |-> "miss", url |-> -1]
  /\ UNCHANGED <<clock, urlCache, cachedCredentials, store, PAGE_SIZE,
                 pagerVars, fetchVars>>

\* the calls at their awaits
Signing == {"sign", "overtaken"}

\* the calls in flight that a clearCaches overtakes
Overtake(p) ==
  [c \in UrlCalls |-> IF p[c] = "sign" THEN "overtaken" ELSE p[c]]

\* getS3Client and getSignedUrl have answered: getAwsCredentials has left
\* the credentials in cachedCredentials, the URL is cached with the expiry
\* counted from the now taken before the awaits, and returned
UrlSigned(c) ==
  /\ urlPc[c] \in Signing
  /\ urlCache' = [url |-> clock, expires |-> urlFrame[c] + TTL]
  /\ cachedCredentials' = "set"
  /\ urlPc' = [urlPc EXCEPT ![c] = "idle"]
  /\ urlFrame' = [urlFrame EXCEPT ![c] = 0]
  /\ urlEv' = [op |-> "signed", url |-> clock]
  /\ UNCHANGED <<clock, store, PAGE_SIZE, pagerVars, fetchVars>>

\* getS3Client throws, or getSignedUrl throws once the credentials are
\* there: the call rejects, the URL cache stays
UrlFail(c) ==
  /\ urlPc[c] \in Signing
  /\ cachedCredentials' \in {cachedCredentials, "set"}
  /\ urlPc' = [urlPc EXCEPT ![c] = "idle"]
  /\ urlFrame' = [urlFrame EXCEPT ![c] = 0]
  /\ urlEv' = [op |-> "reject", url |-> -1]
  /\ UNCHANGED <<clock, urlCache, store, PAGE_SIZE, pagerVars, fetchVars>>

\* clearCaches(): urlCache.clear(); cognitoAuthService.clearCredentials()
ClearCaches ==
  /\ urlCache' = NoUrl
  /\ cachedCredentials' = "null"
  /\ urlPc' = Overtake(urlPc)
  /\ urlEv' = [op |-> "clear", url |-> -1]
  /\ UNCHANGED <<clock, urlFrame, store, PAGE_SIZE, pagerVars, fetchVars>>

\* time passes
Tick ==
  /\ clock < MaxClock
  /\ clock' = clock + 1
  /\ urlEv' = [op |-> "tick", url |-> -1]
  /\ UNCHANGED <<urlCache, cachedCredentials, urlPc, urlFrame, store,
                 PAGE_SIZE, pagerVars, fetchVars>>

\* ------------------------------------------------------------------- logout
\* the components that offer a logout: the root component and the action bar
LogoutEntries == {"root", "actionBar"}

\* a handler that awaits on behalf of a destroyed component
Gone(w) == IF w.handler = "none" THEN w ELSE [w EXCEPT !.handler = "gone"]

\* AppComponent.logout(): s3Service.clearCaches(); authService.logout().
\* ActionBarComponent.logout(): authService.logout().
\* AuthService.logout(): oauthService.logOut(), isAuthenticatedSubject
\* .next(false), router.navigate(['/signin']), which destroys the view; the
\* calls the view awaited go on in the services.
Logout(entry) ==
  /\ isAuthenticated
  /\ IF entry = "root"
     THEN /\ urlCache' = NoUrl
          /\ cachedCredentials' = "null"
          /\ urlPc' = Overtake(urlPc)
     ELSE UNCHANGED <<urlCache, cachedCredentials, urlPc>>
  /\ isAuthenticated' = FALSE
  /\ view' = NoView
  /\ waiting' = [page |-> [c \in Calls |-> Gone(waiting.page[c])],
                 fetch |-> Gone(waiting.fetch), init |-> FALSE]
  /\ viewEv' = [NoViewEv EXCEPT !.op = "logout"]
  /\ urlEv' = [op |-> "logout", url |-> -1]
  /\ UNCHANGED <<clock, urlFrame, store, PAGE_SIZE, pagerVars, fetchVars,
                 graphVars, rangeVars, flagVars>>

\* the user signs in again: the router constructs a new PhotosComponent
SignIn ==
  /\ ~isAuthenticated
  /\ isAuthenticated' = TRUE
  /\ view' = NoView
  /\ waiting' = [waiting EXCEPT !.init = TRUE]
  /\ viewEv' = [NoViewEv EXCEPT !.op = "signIn"]
  /\ urlEv' = [op |-> "signIn", url |-> -1]
  /\ UNCHANGED <<clock, urlCache, cachedCredentials, urlPc, urlFrame, store,
                 PAGE_SIZE, pagerVars, fetchVars, graphVars, rangeVars, flagVars>>

InitUrl == Init /\ store = {} /\ PAGE_SIZE = MaxPageSize

NextUrl ==
  \/ \E c \in UrlCalls :
        GetPresignedUrl(c) /\ UNCHANGED <<viewVars, graphVars, rangeVars, flagVars>>
  \/ \E c \in UrlCalls : UrlSigned(c) /\ UNCHANGED <<viewVars, graphVars, rangeVars, flagVars>>
  \/ \E c \in UrlCalls : UrlFail(c) /\ UNCHANGED <<viewVars, graphVars, rangeVars, flagVars>>
  \/ ClearCaches /\ UNCHANGED <<viewVars, graphVars, rangeVars, flagVars>>
  \/ Tick /\ UNCHANGED <<viewVars, graphVars, rangeVars, flagVars>>
  \/ \E entry \in LogoutEntries : Logout(entry)
  \/ SignIn

SpecUrl == InitUrl /\ [][NextUrl]_vars

\* ------------------------------------------------- pages served over time
\* The caller that asks for page 0, 1, 2, ... in order, while time passes.
NextServe ==
  \/ /\ hist.next \in PageIndexes
     /\ GetPhotosPage(1, PAGE_SIZE, hist.next)
     /\ HistStep
     /\ UNCHANGED aside
  \/ ListReturn(1) /\ HistStep /\ UNCHANGED aside
  \/ SignDone(1) /\ HistStep /\ UNCHANGED aside
  \/ GrowFail(1) /\ HistStep /\ UNCHANGED aside
  \/ Tick /\ UNCHANGED <<viewVars, graphVars, rangeVars, flagVars>>

SpecServe == Init /\ [][NextServe]_vars

\* ---------------------------------------------------------- PhotosComponent
\* the ranges the date range selector emits: from the first instant of a day
\* to the last instant of a day
DayRanges ==
  {r \in {<<a * SlotsPerDay, b * SlotsPerDay + (SlotsPerDay - 1)>> :
            a \in (Today - HorizonDays)..Today,
            b \in (Today - HorizonDays)..Today} : r[1] <= r[2]}

\* photos[index] past the end of the array: undefined, written as a photo
\* with no object behind it
UndefinedPhoto ==
  [key |-> [date |-> 0, time |-> 0, jpg |-> FALSE, lead |-> FALSE],
   timestamp |-> Undefined, url |-> Unsigned]

\* !this.selectedPhoto: null and undefined are falsy
NotSelected(selectedPhoto) ==
  selectedPhoto = <<>> \/ selectedPhoto = <<UndefinedPhoto>>

\* loadPhotos after its await: the page replaces the list, the first photo
\* is selected if none is; catch sets the error; finally drops loading.
\* e is how getPhotosPage settled.
AfterLoadPhotos(v, e) ==
  IF e.op = "return"
  THEN [v EXCEPT !.photos = e.photos,
                 !.hasMorePhotos = e.hasMore,
                 !.selectedPhoto = IF e.photos # <<>> /\ NotSelected(@)
                                   THEN <<e.photos[1]>> ELSE @,
                 !.loading = FALSE]
  ELSE [v EXCEPT !.error = "load", !.loading = FALSE]

\* loadMorePhotos after its await: the page is appended; a failure is not
\* shown; finally releases loadMoreSubject
AfterLoadMorePhotos(v, e) ==
  IF e.op = "return"
  THEN [v EXCEPT !.photos = @ \o e.photos,
                 !.hasMorePhotos = e.hasMore,
                 !.loadMore = FALSE]
  ELSE [v EXCEPT !.loadMore = FALSE]

\* the view once the handler w that awaited a getPhotosPage call has run on
AfterPage(v, w, e) ==
  IF w.handler \in {"loadPhotos", "onDateRangeChanged"}
  THEN AfterLoadPhotos(v, e)
  ELSE IF w.handler = "loadMorePhotos" THEN AfterLoadMorePhotos(v, e)
  ELSE v

\* The view part of a step of call c: v is the view as the synchronous part
\* of the step left it and w the handler that awaits the call; when the call
\* has settled the handler runs on, otherwise it goes on waiting.  wt is
\* who waited before the step.
Resume(c, v, wt, w) ==
  IF pc'[c] = "idle"
  THEN /\ view' = AfterPage(v, w, ev')
       /\ waiting' = [wt EXCEPT !.page[c] = Nobody]
       /\ viewEv' = [op |-> ev'.op, handler |-> w.handler, range |-> w.range]
  ELSE /\ view' = v
       /\ waiting' = [wt EXCEPT !.page[c] = w]
       /\ viewEv' = [op |-> "await", handler |-> w.handler,
                     range |-> w.range]

\* loadPhotos() on behalf of handler w, up to the await of getPhotosPage:
\* the fields are reset, clearCache() empties the paginator, and
\* getPhotosPage(PAGE_SIZE, 0) runs up to its first list call
LoadPhotos(c, v, w) ==
  /\ pc[c] = "idle"
  /\ \A d \in Calls : d < c => pc[d] # "idle"
  /\ PageTurnFrom(c, <<>>, initCurrentDate, TRUE, FALSE,
                  [d \in Calls |-> pc[d] \in {"list", "sign"}],
                  PAGE_SIZE, 0, [NoEv EXCEPT !.invoke = TRUE])
  /\ Resume(c, [v EXCEPT !.loading = TRUE, !.error = "null",
                         !.photos = <<>>, !.currentPage = 0,
                         !.hasMorePhotos = TRUE],
            [waiting EXCEPT !.init = FALSE], w)
  /\ UNCHANGED <<isAuthenticated, hist, fetchVars, urlVars, graphVars, rangeVars, flagVars>>

\* ngOnInit(): await this.loadPhotos()
NgOnInit(c) ==
  /\ isAuthenticated /\ waiting.init
  /\ LoadPhotos(c, view, [handler |-> "loadPhotos", range |-> <<>>])

\* onDateRangeChanged(dateRange): the range is kept, then loadPhotos()
OnDateRangeChanged(c, range) ==
  /\ isAuthenticated /\ ~waiting.init
  /\ LoadPhotos(c, [view EXCEPT !.startDate = range[1], !.endDate = range[2]],
                [handler |-> "onDateRangeChanged", range |-> range])

\* loadMorePhotos() up to its return or the await of getPhotosPage
LoadMorePhotos(c) ==
  /\ isAuthenticated /\ ~waiting.init
  /\ ~view.loadMore /\ view.hasMorePhotos
  /\ view.currentPage < MaxPageIndex
  /\ GetPhotosPage(c, PAGE_SIZE, view.currentPage + 1)
  /\ Resume(c, [view EXCEPT !.loadMore = TRUE, !.currentPage = @ + 1],
            waiting, [handler |-> "loadMorePhotos", range |-> <<>>])
  /\ UNCHANGED <<isAuthenticated, hist, fetchVars, urlVars, graphVars, rangeVars, flagVars>>

\* onPhotoSelected(photo), for a photo of the list
OnPhotoSelected(i) ==
  /\ isAuthenticated /\ ~waiting.init
  /\ i \in 1..Len(view.photos)
  /\ view' = [view EXCEPT !.selectedPhoto = <<view.photos[i]>>]
  /\ viewEv' = [NoViewEv EXCEPT !.op = "selected"]
  /\ UNCHANGED <<waiting, isAuthenticated, store, PAGE_SIZE, pagerVars,
                 fetchVars, urlVars, graphVars, rangeVars, flagVars>>

\* the catch of refreshPhotos that also empties the list
AfterRefreshFailedEmptying(v) ==
  [v EXCEPT !.error = "refresh", !.refreshing = FALSE, !.photos = <<>>,
            !.selectedPhoto = <<>>]

\* the catch and the finally of refreshPhotos
AfterRefreshFailed(v) == [v EXCEPT !.error = "refresh", !.refreshing = FALSE]

\* refreshPhotos after its await: new photos are prepended and the first
\* is selected if none is; finally drops refreshing
AfterRefresh(v, newPhotos) ==
  IF newPhotos # <<>>
  THEN [v EXCEPT !.photos = newPhotos \o @,
                 !.selectedPhoto = IF NotSelected(@) THEN <<newPhotos[1]>>
                                   ELSE @,
                 !.refreshing = FALSE]
  ELSE [v EXCEPT !.refreshing = FALSE]

\* refreshPhotos() with photos in the list, up to the await of
\* getNewPhotosSince(photos[0].timestamp)
RefreshPhotos ==
  /\ isAuthenticated /\ ~waiting.init
  /\ view.photos # <<>>
  /\ GetNewPhotosSince(view.photos[1].timestamp)
  /\ view' = [view EXCEPT !.refreshing = TRUE, !.error = "null",
                          !.isAuthError = FALSE]
  /\ waiting' = [waiting EXCEPT !.fetch = [handler |-> "refreshPhotos",
                                           range |-> <<>>]]
  /\ viewEv' = [op |-> "await", handler |-> "refreshPhotos", range |-> <<>>]
  /\ UNCHANGED <<isAuthenticated, graphVars, rangeVars, flagVars>>

\* refreshPhotos() with an empty list: a full load
RefreshPhotosEmpty(c) ==
  /\ isAuthenticated /\ ~waiting.init
  /\ view.photos = <<>>
  /\ LoadPhotos(c, view, [handler |-> "loadPhotos", range |-> <<>>])

\* The view part of a step of the fetch: when getNewPhotosSince has settled,
\* the refreshPhotos that awaited it runs on.
ResumeFetch ==
  /\ IF fetchPc' \in {"done", "failed"}
     THEN /\ view' = IF waiting.fetch.handler # "refreshPhotos" THEN view
                     ELSE IF fetchPc' = "done"
                     THEN AfterRefresh(view, fetchFrame'.photos)
                     ELSE AfterRefreshFailed(view)
          /\ waiting' = [waiting EXCEPT !.fetch = Nobody]
          /\ viewEv' = [op |-> IF fetchPc' = "done" THEN "return"
                               ELSE "reject",
                        handler |-> waiting.fetch.handler, range |-> <<>>]
     ELSE /\ UNCHANGED <<view, waiting>>
          /\ viewEv' = [op |-> "await", handler |-> waiting.fetch.handler,
                        range |-> <<>>]
  /\ UNCHANGED <<isAuthenticated, graphVars, rangeVars, flagVars>>

\* a step of a getPhotosPage call, and of the handler that awaits it
PageStep(c) ==
  /\ ListReturn(c) \/ SignDone(c) \/ GrowFail(c)
  /\ Resume(c, view, waiting, waiting.page[c])
  /\ UNCHANGED <<isAuthenticated, hist, fetchVars, urlVars, graphVars, rangeVars, flagVars>>

InitView == Init

ViewCalls == 1..MaxViewCalls

NextView ==
  \/ \E c \in ViewCalls : NgOnInit(c)
  \/ \E c \in ViewCalls, range \in DayRanges : OnDateRangeChanged(c, range)
  \/ \E c \in ViewCalls : LoadMorePhotos(c)
  \/ \E i \in 1..MaxPageSize * (MaxPageIndex + 1) + MaxObjects :
        OnPhotoSelected(i)
  \/ RefreshPhotos
  \/ \E c \in ViewCalls : RefreshPhotosEmpty(c)
  \/ \E c \in ViewCalls : PageStep(c)
  \/ FetchListAllReturn /\ ResumeFetch
  \/ FetchSignDone /\ ResumeFetch
  \/ FetchFail /\ ResumeFetch
  \/ \E entry \in LogoutEntries : Logout(entry)
  \/ SignIn

SpecView == InitView /\ [][NextView]_vars

\* ------------------------------------------------ URL generations in flight
\* photoObjects.map(async obj => ... await getPresignedUrl(key)) inside
\* Promise.all: map starts the function of every element before any of
\* them is resumed, so while a grow awaits its URLs one getPresignedUrl
\* call per listed photo is in flight
GrowUrlsInFlight(c) == IF pc[c] = "sign" THEN Len(frame[c].newPhotos) ELSE 0

\* the same for filteredObjects.map(...) of getPhotos and getNewPhotosSince
FetchUrlsInFlight ==
  IF fetchPc = "sign" THEN Len(fetchFrame.filteredObjects) ELSE 0

\* ------------------------------------------- reloads that overtake a load
\* The view with handlers that overlap: a reload (ngOnInit, a change of the
\* date range) may start while the getPhotosPage call of a loadMorePhotos
\* or of an earlier reload is in flight.  The store holds photos with
\* ordinary names and times only.
OrdinaryStores ==
  {st \in Stores : \A o \in st : o.jpg /\ ~o.lead /\ o.time < SlotsPerDay}

InitReload == Init /\ store \in OrdinaryStores

NextReload ==
  \/ \E c \in Calls : NgOnInit(c)
  \/ \E c \in Calls, range \in DayRanges : OnDateRangeChanged(c, range)
  \/ \E c \in Calls : LoadMorePhotos(c)
  \/ \E c \in Calls : PageStep(c)

SpecReload == InitReload /\ [][NextReload]_vars

\* ------------------------------------------------- stepping through photos
\* photos.findIndex(p => p.key === this.selectedPhoto?.key): the 0-based
\* index of the first photo with the key of the selection, -1 if there is
\* none; the key of null and of undefined is undefined
FindIndex(photos, selectedPhoto) ==
  LET hits == {i \in 1..Len(photos) :
                 /\ ~NotSelected(selectedPhoto)
                 /\ photos[i].key = selectedPhoto[1].key}
  IN IF hits = {} THEN -1
     ELSE (CHOOSE i \in hits : \A j \in hits : i <= j) - 1

\* photos[index] of a 0-based index
At(photos, index) ==
  IF index >= 0 /\ index < Len(photos) THEN photos[index + 1]
  ELSE UndefinedPhoto

\* previousPhoto()
PreviousPhoto ==
  /\ isAuthenticated /\ ~waiting.init
  /\ LET index == FindIndex(view.photos, view.selectedPhoto)
     IN view' = IF Len(view.photos) # 0 /\ index > 0
                THEN [view EXCEPT !.selectedPhoto =
                                     <<At(view.photos, index - 1)>>]
                ELSE view
  /\ viewEv' = [NoViewEv EXCEPT !.op = "previous"]
  /\ UNCHANGED <<waiting, isAuthenticated, store, PAGE_SIZE, pagerVars,
                 fetchVars, urlVars, graphVars, rangeVars, flagVars>>

\* nextPhoto()
NextPhoto ==
  /\ isAuthenticated /\ ~waiting.init
  /\ LET index == FindIndex(view.photos, view.selectedPhoto)
     IN view' = IF /\ Len(view.photos) # 0
                   /\ index >= 0 /\ index < Len(view.photos)
                THEN [view EXCEPT !.selectedPhoto =
                                     <<At(view.photos, index + 1)>>]
                ELSE view
  /\ viewEv' = [NoViewEv EXCEPT !.op = "next"]
  /\ UNCHANGED <<waiting, isAuthenticated, store, PAGE_SIZE, pagerVars,
                 fetchVars, urlVars, graphVars, rangeVars, flagVars>>

\* the view with the handlers that select, load and refresh
NextSelect ==
  \/ \E c \in ViewCalls : NgOnInit(c)
  \/ \E c \in ViewCalls, range \in DayRanges : OnDateRangeChanged(c, range)
  \/ \E c \in ViewCalls : LoadMorePhotos(c)
  \/ \E i \in 1..MaxPageSize * (MaxPageIndex + 1) + MaxObjects :
        OnPhotoSelected(i)
  \/ PreviousPhoto
  \/ NextPhoto
  \/ RefreshPhotos
  \/ \E c \in ViewCalls : RefreshPhotosEmpty(c)
  \/ \E c \in ViewCalls : PageStep(c)
  \/ FetchListAllReturn /\ ResumeFetch
  \/ FetchSignDone /\ ResumeFetch
  \/ FetchFail /\ ResumeFetch

SpecSelect == InitReload /\ [][NextSelect]_vars

\* ------------------------------------------- the date-range paginator
\* endIndex.toString(): the decimal digits of a natural number
RECURSIVE toString(_)
toString(n) == IF n < 10 THEN <<n>> ELSE toString(n \div 10) \o <<n % 10>>

\* parseInt(continuationToken) of a string of digits
RECURSIVE ParseInt(_)
ParseInt(t) ==
  IF t = <<>> THEN 0 ELSE 10 * ParseInt(SubSeq(t, 1, Len(t) - 1)) + t[Len(t)]

\* new Date(): the instant the clock shows
NewDate == Now + clock

\* endDate = new Date() if none is given
RangeEnd(endDate) == IF endDate = Undefined THEN NewDate ELSE endDate

\* startDate = endDate - 24 h if none is given
RangeBegin(startDate, endDate) ==
  IF startDate = Undefined THEN RangeEnd(endDate) - SlotsPerDay ELSE startDate

\* the per-prefix loop of getPhotos: while (hasMore) listObjects(prefix,
\* 1000, continuationToken).  returns tells whether every loop ends: the
\* answer to a list call of a prefix is the same every time, so a loop
\* whose first answer is truncated is never left.
RECURSIVE ListAllPages(_)
ListAllPages(prefixes) ==
  IF prefixes = <<>> THEN [returns |-> TRUE, allObjects |-> <<>>]
  ELSE LET response == S3Service_listObjects(Head(prefixes), MaxKeys, 0)
           rest == ListAllPages(Tail(prefixes))
       IN [returns |-> ~response.IsTruncated /\ rest.returns,
           allObjects |-> response.Contents \o rest.allObjects]

\* the photos of a range as they are stored
PhotosOfRange(startDate, endDate) ==
  {o \in store : /\ PHOTO_PATTERN(o)
                 /\ InRange(parseFileName(o), startDate, endDate)}

\* the end of getPhotosPage: the page of the token is sliced off the cache
\* and returned; the caller keeps it and, told that there is more, is about
\* to call again with the token it was given
ServePage(r) ==
  LET startIndex == IF r.token # <<>> THEN ParseInt(r.token) ELSE 0
      endIndex == startIndex + r.pageSize
      photos == Slice(r.photoCache, startIndex, endIndex)
      hasMore == endIndex < Len(r.photoCache)
      nextToken == IF hasMore THEN toString(endIndex) ELSE <<>>
  IN [r EXCEPT !.out = r.out \o photos,
               !.token = nextToken,
               !.pc = IF hasMore THEN "call" ELSE "done"]

\* getPhotosPage(startDate, endDate, pageSize, continuationToken) up to
\* its await: the defaults are taken, the cache is compared with the range
\* and, if it does not hold the range, getPhotos is called
EnterGetPhotosPage(r) ==
  LET endDate == RangeEnd(r.endDate)
      startDate == RangeBegin(r.startDate, r.endDate)
      cacheValid == /\ r.cached
                    /\ r.cacheStartDate = startDate
                    /\ r.cacheEndDate = endDate
      s == [r EXCEPT !.b = startDate, !.e = endDate,
                     !.first = IF r.out = <<>> /\ r.token = <<>>
                               THEN PhotosOfRange(startDate, endDate)
                               ELSE r.first]
  IN IF cacheValid THEN ServePage(s)
     ELSE [s EXCEPT !.pc = "list", !.listings = r.listings + 1]

\* a caller asks for the first page of a range
RangeGetPhotosPage(startDate, endDate, pageSize) ==
  /\ rangePager.pc \in {"idle", "done"}
  /\ rangePager' =
       EnterGetPhotosPage([rangePager EXCEPT !.startDate = startDate,
                                             !.endDate = endDate,
                                             !.pageSize = pageSize,
                                             !.token = <<>>,
                                             !.out = <<>>,
                                             !.first = {},
                                             !.listings = 0])
  /\ UNCHANGED <<store, PAGE_SIZE, pagerVars, fetchVars, urlVars, viewVars,
                 graphVars, flagVars>>

\* the caller follows the token with the arguments of its first call
RangeFollowToken ==
  /\ rangePager.pc = "call"
  /\ rangePager' = EnterGetPhotosPage(rangePager)
  /\ UNCHANGED <<store, PAGE_SIZE, pagerVars, fetchVars, urlVars, viewVars,
                 graphVars, flagVars>>

\* getPhotos(startDate, endDate) returns: the listed objects are filtered
\* by pattern and range, signed and sorted; the cache and its range are
\* stored and the page is served
RangeGetPhotosReturn ==
  /\ rangePager.pc = "list"
  /\ LET r == rangePager
         listed == ListAllPages(getDatePrefixes(r.b, r.e))
         filteredObjects == RangeObjects(listed.allObjects, r.b, r.e)
     IN /\ listed.returns
        /\ rangePager' =
             ServePage([r EXCEPT !.cached = TRUE,
                                 !.photoCache =
                                    SortDesc(SignAll(MapPhotos(filteredObjects),
                                                     clock)),
                                 !.cacheStartDate = r.b,
                                 !.cacheEndDate = r.e])
  /\ UNCHANGED <<store, PAGE_SIZE, pagerVars, fetchVars, urlVars, viewVars,
                 graphVars, flagVars>>

\* clearCache() of the date-range paginator, called between two walks
RangeClearCache ==
  /\ rangePager.pc = "done"
  /\ rangePager.cached
  /\ rangePager' = [rangePager EXCEPT !.cached = FALSE,
                                      !.photoCache = <<>>,
                                      !.cacheStartDate = -1,
                                      !.cacheEndDate = -1]
  /\ UNCHANGED <<store, PAGE_SIZE, pagerVars, fetchVars, urlVars, viewVars,
                 graphVars, flagVars>>

\* the ranges a caller passes: a range of whole days, or none
RangeArgs == DayRanges \cup {<<Undefined, Undefined>>}

InitRange == Init /\ store \in OrdinaryStores

NextRange ==
  \/ \E range \in RangeArgs, pageSize \in PageSizes :
        RangeGetPhotosPage(range[1], range[2], pageSize)
  \/ RangeFollowToken
  \/ RangeGetPhotosReturn
  \/ RangeClearCache
  \/ Tick /\ UNCHANGED <<viewVars, graphVars, rangeVars, flagVars>>

SpecRange == InitRange /\ [][NextRange]_vars

\* ------------------------------------------------------- reboot detection
\* the lists bound to the graph, newest first as the view keeps them, with
\* distinct capture times
FlagInputs ==
  {p \in UNION {[1..n -> 0..MaxGraphPhotos] : n \in 0..MaxGraphPhotos} :
     \A k \in 1..Len(p) - 1 : p[k] > p[k + 1]}

\* what getMetadata returns for the photos of a list: uptime_seconds of the
\* metadata, or Undefined where the lookup gives null
MetadataOf(photos) == [1..Len(photos) -> 0..MaxUptime \cup {Undefined}]

\* insert a point before every point that is later than it (stable)
RECURSIVE InsertAsc(_, _)
InsertAsc(s, p) ==
  IF s = <<>> THEN <<p>>
  ELSE IF Head(s).timestamp <= p.timestamp
       THEN <<Head(s)>> \o InsertAsc(Tail(s), p)
       ELSE <<p>> \o s

\* dataPoints.sort((a, b) => a.timestamp - b.timestamp)
RECURSIVE SortAsc(_)
SortAsc(s) ==
  IF s = <<>> THEN <<>>
  ELSE InsertAsc(SortAsc(SubSeq(s, 1, Len(s) - 1)), s[Len(s)])

\* if (previousUptime !== undefined && uptime_seconds < previousUptime)
IsReboot(previousUptime, uptime) ==
  previousUptime # Undefined /\ uptime < previousUptime

\* the inner loop over the results of a batch, from result j on: a lookup
\* with a value pushes a point, flagged against the uptime of the point
\* pushed before it, and leaves its uptime in previousUptime
RECURSIVE ProcessResults(_, _, _)
ProcessResults(u, j, last) ==
  IF j > last THEN u
  ELSE IF u.metadata[j] = Undefined THEN ProcessResults(u, j + 1, last)
  ELSE ProcessResults(
         [u EXCEPT !.dataPoints =
                      Append(@, [timestamp |-> u.photos[j],
                                 uptime |-> u.metadata[j],
                                 isReboot |-> IsReboot(u.previousUptime,
                                                       u.metadata[j])]),
                   !.previousUptime = u.metadata[j]],
         j + 1, last)

\* the test of the for loop: another batch is awaited, or the run is over
NextBatch(u) ==
  [u EXCEPT !.pc = IF u.i < Len(u.photos) THEN "await" ELSE "done"]

\* loadMetadataProgressively() with a chart, up to its first await
LoadMetadataProgressively(photos, metadata) ==
  /\ uptimeRun.pc \in {"idle", "done"}
  /\ uptimeRun' = NextBatch([NoUptimeRun EXCEPT !.photos = photos,
                                                !.metadata = metadata])
  /\ UNCHANGED <<store, PAGE_SIZE, pagerVars, fetchVars, urlVars, viewVars,
                 graphVars, rangeVars>>

\* the lookups of a batch have settled: the results are processed in the
\* order of the list, the points are sorted by time and the loop goes on
UptimeBatchSettled ==
  /\ uptimeRun.pc = "await"
  /\ LET u == uptimeRun
         last == IF u.i + BATCH_SIZE < Len(u.photos)
                 THEN u.i + BATCH_SIZE ELSE Len(u.photos)
         v == ProcessResults(u, u.i + 1, last)
     IN uptimeRun' = NextBatch([v EXCEPT !.dataPoints = SortAsc(@),
                                         !.i = u.i + BATCH_SIZE])
  /\ UNCHANGED <<store, PAGE_SIZE, pagerVars, fetchVars, urlVars, viewVars,
                 graphVars, rangeVars>>

InitReboot == Init /\ store = {} /\ PAGE_SIZE = MaxPageSize

NextReboot ==
  \/ \E photos \in FlagInputs : \E metadata \in MetadataOf(photos) :
        LoadMetadataProgressively(photos, metadata)
  \/ UptimeBatchSettled

SpecReboot == InitReboot /\ [][NextReboot]_vars

\* ---------------------------------------------------------- MetadataService
\* how the lookup of a key that is not cached ends: the body parses to a
\* metadata object, the body parses to a falsy JSON value such as null,
\* getObject throws for a missing object, the body is empty, the body is
\* not JSON, or the transport fails
Outcomes == {"json", "jsonNull", "missing", "empty", "malformed", "transport"}

\* the outcomes in which JSON.parse(bodyText) returns
Parsed == {"json", "jsonNull"}

\* getMetadata with catch blocks that throw the error on
getMetadataRethrowing(outcome) ==
  IF outcome = "json" THEN "value"
  ELSE IF outcome = "empty" THEN "null" ELSE "rejected"

\* getMetadata(photoKey) after the await of getObject: what the promise
\* settles with.  Both catch blocks and the test of the body return null.
getMetadata(outcome) == IF outcome = "json" THEN "value" ELSE "null"

\* this.metadataCache.set(photoKey, metadata), reached once the body parsed;
\* the Map is written as the set of its <<key, value>> entries
CacheSet(cache, key, outcome) ==
  IF outcome \in Parsed
  THEN {p \in cache : p[1] # key} \cup {<<key, getMetadata(outcome)>>}
  ELSE cache

\* this.metadataCache.has(photoKey)
CacheHas(cache, key) == \E p \in cache : p[1] = key

\* this.metadataCache.get(photoKey)
CacheGet(cache, key) == (CHOOSE p \in cache : p[1] = key)[2]

\* getMetadata(photoKey) up to its return or its await, for every key of a
\* batch: a cached key returns its metadata at once
BatchCalls(batch, cache) ==
  [j \in 1..Len(batch) |-> IF CacheHas(cache, batch[j])
                           THEN CacheGet(cache, batch[j])
                           ELSE "pending"]

\* ----------------------------------------------------- PhotoGraphsComponent
\* the lists bound to the photos input
GraphInputs == {[i \in 1..n |-> i] : n \in 0..MaxGraphPhotos}

\* if (dataPoints.length === 0) this.error = 'No valid metadata found...'
FinalError(error, dataPoints, failedCount) ==
  IF dataPoints = 0 THEN "noValid" ELSE error

\* The final status of loadMetadataProgressively and its finally block, for
\* run r of the world w = [graph, run, finished]
Finish(w, r) ==
  LET rn == w.run[r]
      g == w.graph
  IN [w EXCEPT
        !.graph = [g EXCEPT
                     !.warning = IF rn.failedCount > 0
                                 THEN <<rn.failedCount, Len(g.photos)>>
                                 ELSE @,
                     !.error = FinalError(@, rn.dataPoints, rn.failedCount),
                     !.loading = FALSE],
        !.run[r] = NoRun,
        !.finished = Append(@, [failed |-> rn.failedCount,
                                points |-> rn.dataPoints])]

\* The results of a batch are processed: a fulfilled lookup with a value
\* adds a point, any other counts as failed; the chart is updated when
\* there are points (updateChartData returns at once without a chart)
BatchSettled(w, r) ==
  LET rn == w.run[r]
      ok == Cardinality({j \in 1..Len(rn.results) : rn.results[j] = "value"})
      points == rn.dataPoints + ok
  IN [w EXCEPT
        !.run[r] = [rn EXCEPT !.dataPoints = points,
                              !.failedCount = @ + Len(rn.results) - ok,
                              !.i = @ + BATCH_SIZE,
                              !.batch = <<>>, !.results = <<>>],
        !.graph.chart = IF points > 0 /\ @ # NoChart THEN points ELSE @]

\* The for loop of loadMetadataProgressively from its test to the next
\* await that has to wait for a lookup, or to the end of the run
RECURSIVE RunLoop(_, _, _)
RunLoop(w, r, cache) ==
  LET rn == w.run[r]
      batch == Slice(w.graph.photos, rn.i, rn.i + BATCH_SIZE)
      results == BatchCalls(batch, cache)
      started == [w EXCEPT !.run[r] = [rn EXCEPT !.pc = "await",
                                                 !.batch = batch,
                                                 !.results = results]]
  IN IF rn.i < Len(w.graph.photos)
     THEN IF \E j \in 1..Len(results) : results[j] = "pending"
          THEN started
          ELSE RunLoop(BatchSettled(started, r), r, cache)
     ELSE Finish(w, r)

\* the run slot a new execution takes
FreeRun(w) ==
  CHOOSE r \in Runs :
    /\ w.run[r].pc = "idle"
    /\ \A d \in Runs : d < r => w.run[d].pc # "idle"

\* loadMetadataProgressively() up to its first await
StartRun(w, cache) ==
  IF w.graph.chart = NoChart THEN w
  ELSE RunLoop([w EXCEPT !.graph = [w.graph EXCEPT !.loading = TRUE,
                                                   !.error = "null",
                                                   !.warning = <<>>],
                         !.run[FreeRun(w)] = [NoRun EXCEPT !.pc = "start"]],
               FreeRun(w), cache)

\* initializeChart() with the canvas in place: the chart is replaced by an
\* empty one and, with photos bound, the metadata is loaded
InitializeChart(w, cache) ==
  LET fresh == [w EXCEPT !.graph.chart = 0]
  IN IF Len(w.graph.photos) > 0 THEN StartRun(fresh, cache) ELSE fresh

\* the world a step of the graph starts from
World == [graph |-> graph, run |-> run, finished |-> <<>>]

IdleRuns == {r \in Runs : run[r].pc = "idle"}

\* ngOnChanges(changes) with changes['photos']: the list is bound and a
\* timeout is set; the first binding is followed by ngAfterViewInit, which
\* sets its own
NgOnChanges(photos) ==
  /\ graph.changes < MaxChanges
  /\ graph' = [graph EXCEPT
                 !.photos = photos,
                 !.changes = @ + 1,
                 !.timers = IF graph.changes = 0
                            THEN @ \o <<"changes", "viewInit">>
                            ELSE Append(@, "changes")]
  /\ mdEv' = [NoMdEv EXCEPT !.op = "bound"]
  /\ UNCHANGED <<run, metadataCache>>

\* the oldest timeout runs: initializeChart(), and after a change of the
\* photos loadMetadataProgressively() once more
Timeout ==
  /\ graph.timers # <<>>
  /\ Cardinality(IdleRuns) >= 2
  /\ LET popped == [World EXCEPT !.graph.timers = Tail(@)]
         w == IF Head(graph.timers) = "changes"
              THEN StartRun(InitializeChart(popped, metadataCache),
                            metadataCache)
              ELSE InitializeChart(popped, metadataCache)
     IN /\ graph' = w.graph
        /\ run' = w.run
        /\ mdEv' = [NoMdEv EXCEPT !.op = "timeout", !.finished = w.finished]
  /\ UNCHANGED metadataCache

\* the lookup of the j-th key of the batch of run r settles; once the whole
\* batch has settled the run goes on
LookupSettles(r, j, outcome) ==
  /\ run[r].pc = "await"
  /\ j \in 1..Len(run[r].results)
  /\ run[r].results[j] = "pending"
  /\ LET key == run[r].batch[j]
         cache == CacheSet(metadataCache, key, outcome)
         settled == [World EXCEPT !.run[r].results[j] = getMetadata(outcome)]
         w == IF \E i \in 1..Len(settled.run[r].results) :
                    settled.run[r].results[i] = "pending"
              THEN settled
              ELSE RunLoop(BatchSettled(settled, r), r, cache)
     IN /\ metadataCache' = cache
        /\ graph' = w.graph
        /\ run' = w.run
        /\ mdEv' = [op |-> "settled", key |-> key, outcome |-> outcome,
                    result |-> getMetadata(outcome), finished |-> w.finished]

InitGraph == Init /\ store = {} /\ PAGE_SIZE = MaxPageSize

NextGraph ==
  \/ \E photos \in GraphInputs :
        /\ NgOnChanges(photos)
        /\ UNCHANGED <<store, PAGE_SIZE, pagerVars, fetchVars, urlVars,
                       viewVars, rangeVars, flagVars>>
  \/ /\ Timeout
     /\ UNCHANGED <<store, PAGE_SIZE, pagerVars, fetchVars, urlVars, viewVars, rangeVars, flagVars>>
  \/ \E r \in Runs, j \in 1..BATCH_SIZE, outcome \in Outcomes :
        /\ LookupSettles(r, j, outcome)
        /\ UNCHANGED <<store, PAGE_SIZE, pagerVars, fetchVars, urlVars,
                       viewVars, rangeVars, flagVars>>

SpecGraph == InitGraph /\ [][NextGraph]_vars

\* ------------------------------------------------------------------- claims
InFlight == {c \in Calls : pc[c] \in {"list", "sign"}}

KeysOf(s) == {s[i].key : i \in 1..Len(s)}

NoRepeatedKey(s) == \A i, j \in 1..Len(s) : i # j => s[i].key # s[j].key

NewestFirst(s) ==
  \A i \in 1..Len(s) - 1 : s[i].timestamp >= s[i + 1].timestamp

\* the stored photos in the buckets of the days from the horizon to today
HorizonPhotos ==
  {o \in store : /\ PHOTO_PATTERN(o)
                 /\ o.date >= Today - HorizonDays
                 /\ o.date <= Today}

Min(a, b) == IF a < b THEN a ELSE b

\* C1: at most one execution of loadMoreDaysFromS3 is in flight at any time,
\* under every interleaving of getPhotosPage and clearCache calls.
C1_OneGrowInFlight == Cardinality(InFlight) <= 1

\* C2: a loadMoreDaysFromS3 that was in flight when clearCache ran adds no
\* photo to the new photoCache when it completes, does not move currentDate,
\* does not change hasMorePhotos and does not release the flag of a grow of
\* the new generation.
C2_StaleGrowDiscarded ==
  [][(ev'.grown /\ ev'.stale) =>
        /\ photoCache' = photoCache
        /\ currentDate' = currentDate
        /\ hasMorePhotos' = hasMorePhotos
        /\ (\E d \in Calls : pc'[d] \in {"list", "sign"} /\ ~stale'[d])
              => isLoadingMore']_vars

\* C3: getPhotosPage never returns fewer than pageSize photos while
\* hasMorePhotos is still true (a call that arrives during another call's
\* grow waits for it).
C3_FullPageWhileMore ==
  ev.op = "return" => (Len(ev.photos) >= ev.pageSize \/ ~hasMorePhotos)

\* C4: in every reachable state photoCache holds each photo key at most once.
C4_NoDuplicateKey == NoRepeatedKey(photoCache)

\* a grow has just merged photos whose keys the cache already held
C4_Witness == ev.grown /\ ev.dropped > 0 /\ Len(photoCache) > 0

\* C5: in every observable state photoCache is sorted by timestamp,
\* descending.
C5_CacheNewestFirst == NewestFirst(photoCache)

\* a grow has just merged a bucket of two photos, listed oldest first
C5_Witness == ev.grown /\ ev.found >= 2 /\ Len(photoCache) >= 2

\* C6: against an unchanging store and with no reset, the pages 0..k asked in
\* order with a fixed pageSize are, concatenated, exactly the first
\* min((k+1)*pageSize, N) photos of the newest-first ordering of the N photos
\* within the horizon: none repeated, none skipped.
C6_PagesArePrefix ==
  /\ NoRepeatedKey(hist.out)
  /\ NewestFirst(hist.out)
  /\ KeysOf(hist.out) \subseteq HorizonPhotos
  /\ Len(hist.out) = Min(hist.next * PAGE_SIZE, Cardinality(HorizonPhotos))
  /\ \A o \in HorizonPhotos \ KeysOf(hist.out) :
        \A i \in 1..Len(hist.out) : hist.out[i].timestamp >= parseFileName(o)

\* C7: getPhotosPage returns hasMore = false only when the page reaches the
\* end of the cache and the paginator is exhausted, and never while a stored
\* photo within the horizon is missing from pages 0..pageIndex.
C7_NoMoreMeansAllServed ==
  (ev.op = "return" /\ ~ev.hasMore) =>
     /\ ev.pageIndex * ev.pageSize + ev.pageSize >= Len(photoCache)
     /\ ~hasMorePhotos
     /\ HorizonPhotos \subseteq
          KeysOf(Slice(photoCache, 0, ev.pageIndex * ev.pageSize + ev.pageSize))

C9_RepeatedCallSameResult ==
  [][(/\ ev.op = "return"
      /\ ev'.invoke
      /\ ev'.pageSize = ev.pageSize
      /\ ev'.pageIndex = ev.pageIndex) =>
        /\ ev'.op = "return"
        /\ ev'.photos = ev.photos
        /\ ev'.hasMore = ev.hasMore]_vars

\* a call has just returned a non-empty page right after the same call did
C9_Witness == ev.repeat /\ ev.op = "return" /\ Len(ev.photos) > 0

\* C10: when photoCache.length >= (pageIndex+1)*pageSize at the call,
\* getPhotosPage issues no list call and no URL generation and leaves
\* photoCache, the cursor, hasMorePhotos and the in-flight flag unchanged.
C10_CoveredPageTouchesNothing ==
  [][(/\ ev'.invoke
      /\ Len(photoCache) >= ev'.pageIndex * ev'.pageSize + ev'.pageSize) =>
        /\ ev'.op = "return"
        /\ UNCHANGED <<photoCache, currentDate, hasMorePhotos, isLoadingMore,
                       pc, frame>>]_vars

\* a call has just been served a full page out of a cache that covered it,
\* with more days still to scan
C10_Witness ==
  /\ ev.invoke /\ ev.op = "return" /\ ~ev.grown
  /\ Len(photoCache) >= ev.pageIndex * ev.pageSize + ev.pageSize
  /\ hasMorePhotos

\* ------------------------------------------------ claims on the fetches
\* the keys the store holds under the prefixes of a fetch
KeysUnder(prefixes) ==
  {o \in store : \E i \in 1..Len(prefixes) : o.date = prefixes[i]}

ElementsOf(s) == {s[i] : i \in 1..Len(s)}

\* the stored objects that are photos by the pattern
StoredPhotos == {o \in store : PHOTO_PATTERN(o)}

Returned(op) == fetchPc = "done" /\ fetchFrame.op = op

\* C11: the per-bucket loop hands each returned continuation token to the
\* next list call, collects the entries of every page exactly once, and ends
\* when the lister reports no further page, having collected every key under
\* its prefixes.
C11_ListingFollowsTokens ==
  fetchFrame.op = "getPhotos" =>
    /\ fetchFrame.sent = fetchFrame.held
    /\ \A i, j \in 1..Len(fetchFrame.allObjects) :
          i # j => fetchFrame.allObjects[i] # fetchFrame.allObjects[j]
    /\ fetchPc \in {"sign", "done"} =>
          ElementsOf(fetchFrame.allObjects) = KeysUnder(fetchFrame.prefixes)

\* C12: getPhotos(start, end) never returns a photo whose timestamp is
\* earlier than start or later than end.
C12_RangeResultInsideRange ==
  Returned("getPhotos") =>
    \A i \in 1..Len(fetchFrame.photos) :
       /\ fetchFrame.photos[i].timestamp >= fetchFrame.startDate
       /\ fetchFrame.photos[i].timestamp <= fetchFrame.endDate

\* getPhotos has returned photos after listing a photo outside the range
C12_Witness ==
  /\ Returned("getPhotos")
  /\ fetchFrame.photos # <<>>
  /\ \E o \in ElementsOf(fetchFrame.allObjects) :
        /\ PHOTO_PATTERN(o)
        /\ \/ parseFileName(o) < fetchFrame.startDate
           \/ parseFileName(o) > fetchFrame.endDate

\* C13: getPhotos(start, end) returns every stored object whose basename
\* matches the photo pattern and whose timestamp lies in [start, end].
C13_RangeResultComplete ==
  Returned("getPhotos") =>
    \A o \in StoredPhotos :
       (parseFileName(o) >= fetchFrame.startDate
          /\ parseFileName(o) <= fetchFrame.endDate)
       => o \in KeysOf(fetchFrame.photos)

\* C14: getNewPhotosSince(ts) never returns a photo whose timestamp is equal
\* to ts or earlier than ts.
C14_SinceIsExclusive ==
  Returned("getNewPhotosSince") =>
    \A i \in 1..Len(fetchFrame.photos) :
       fetchFrame.photos[i].timestamp > fetchFrame.startDate

\* getNewPhotosSince has returned photos after listing a photo taken at ts
C14_Witness ==
  /\ Returned("getNewPhotosSince")
  /\ fetchFrame.photos # <<>>
  /\ \E o \in ElementsOf(fetchFrame.allObjects) :
        PHOTO_PATTERN(o) /\ parseFileName(o) = fetchFrame.startDate

\* C15: getNewPhotosSince(ts) returns exactly the stored photos with
\* ts < timestamp <= now, also when a bucket holds more than one list page.
C15_SinceResultExact ==
  Returned("getNewPhotosSince") =>
    KeysOf(fetchFrame.photos) =
      {o \in StoredPhotos : /\ parseFileName(o) > fetchFrame.startDate
                            /\ parseFileName(o) <= Now}

C17_AtMostSpanPlusTwo ==
  (fetchFrame.op # "none" /\ fetchFrame.startDate <= fetchFrame.endDate) =>
    Len(fetchFrame.prefixes) * SlotsPerDay
      <= (fetchFrame.endDate - fetchFrame.startDate) + 2 * SlotsPerDay

\* C17 amended: for start <= end the number of prefixes is at most
\* span_days + 2, span_days being the number of UTC calendar days from
\* start's day through end's day.
C17_AtMostDaysTouchedPlusTwo ==
  (fetchFrame.op # "none" /\ fetchFrame.startDate <= fetchFrame.endDate) =>
    Len(fetchFrame.prefixes)
      <= (UTCDay(fetchFrame.endDate) - UTCDay(fetchFrame.startDate) + 1) + 2

\* a fetch over a range that crosses midnight has computed its prefixes
C17_Witness ==
  /\ fetchFrame.op # "none"
  /\ UTCDay(fetchFrame.startDate) < UTCDay(fetchFrame.endDate)
  /\ Len(fetchFrame.prefixes) =
       UTCDay(fetchFrame.endDate) - UTCDay(fetchFrame.startDate) + 3

\* C18: parseFileName round-trips: the UTC date and time of day of the
\* instant it returns for an accepted file name are the digits of the name.
C18_ParseRoundTrips ==
  \A i \in 1..Len(fetchFrame.photos) :
     LET p == fetchFrame.photos[i]
     IN /\ UTCDay(p.timestamp) = p.key.date
        /\ p.timestamp % SlotsPerDay = p.key.time

\* C19: every Photo of a result of getPhotos, getNewPhotosSince or
\* getPhotosPage has a basename that is exactly cat_ + 8 digits + _ +
\* 6 digits + the image extension.
C19_OnlyExactBasenames ==
  \A k \in KeysOf(fetchFrame.photos) \cup KeysOf(ev.photos) :
     k.jpg /\ ~k.lead

\* --------------------------------------------- claims on the URL cache
\* C20: every getPresignedUrl call made less than the TTL after the cached
\* URL was generated returns that URL without generating a new one; the
\* first call made once the TTL has elapsed generates a new URL, which is
\* cached and returned.
C20_UrlStableWithinTTL ==
  [][/\ (urlEv'.op \in {"hit", "miss"} /\ urlCache # NoUrl) =>
          IF clock < urlCache.url + TTL
          THEN urlEv'.op = "hit" /\ urlEv'.url = urlCache.url
          ELSE urlEv'.op = "miss"
     /\ urlEv'.op = "signed" => urlCache'.url = urlEv'.url]_vars

\* ------------------------------------------- claims on sessions and caches
\* C21: every URL handed to the view is unexpired when it is served: a URL
\* returned by getPresignedUrl, or carried by a Photo of a page returned by
\* getPhotosPage, was generated less than the TTL before it is returned.
C21_ServedUrlsUnexpired ==
  [][/\ urlEv'.op \in {"hit", "signed"} => clock' < urlEv'.url + TTL
     /\ (ev'.op = "return" /\ clock' = clock) =>
          \A i \in 1..Len(ev'.photos) : clock' < ev'.photos[i].url + TTL]_vars

\* C22: after a logout through any logout entry point (the root component
\* or the action bar), urlCache is empty and the cached AWS credentials are
\* null.
C22_LogoutEmptiesUrlCaches ==
  [][urlEv'.op = "logout" =>
        urlCache' = NoUrl /\ cachedCredentials' = "null"]_vars

\* C23: after logout photoCache is empty and the cursor is back at today
\* (UTC), so that the first getPhotosPage of the next session serves no
\* photo record cached during the previous session.
C23_LogoutResetsPaginator ==
  [][viewEv'.op = "logout" =>
        photoCache' = <<>> /\ currentDate' = initCurrentDate]_vars

\* C24: between two clearCache calls photoCache never shrinks: its length
\* never decreases and no key already in it disappears.
C24_CacheNeverShrinks ==
  [][ev'.op # "clear" =>
        /\ Len(photoCache') >= Len(photoCache)
        /\ KeysOf(photoCache) \subseteq KeysOf(photoCache')]_vars

\* a grow has just merged the photos of a bucket into a cache that held
\* photos of another bucket
C24_Witness ==
  /\ ev.grown /\ ev.found > 0 /\ ev.dropped = 0
  /\ Len(photoCache) > ev.found

\* C25: if a list call or a URL generation fails during a grow,
\* getPhotosPage rejects without a partial page, and photoCache, the cursor
\* and hasMorePhotos are exactly as they were before the grow, with the
\* in-flight flag released so that a retried getPhotosPage lists the same
\* bucket again.
C25_FailedGrowLeavesNoTrace ==
  [][(ev'.op = "reject" /\ ~ev'.stale) =>
        /\ ev'.photos = <<>>
        /\ <<photoCache', currentDate', hasMorePhotos'>> = ev'.before
        /\ ~isLoadingMore'
        /\ UTCDay(currentDate') = ev'.bucket]_vars

\* ------------------------------------------------------ claims on the view
\* C26: if getNewPhotosSince fails during refreshPhotos, the photos list
\* and selectedPhoto of the view are exactly what they were before the
\* refresh started: the refresh changes the error and refreshing flags only.
C26_FailedRefreshKeepsList ==
  [][viewEv'.handler = "refreshPhotos" =>
        /\ viewEv'.op \in {"await", "reject"} =>
             [view' EXCEPT !.error = view.error,
                           !.refreshing = view.refreshing] = view
        /\ viewEv'.op = "reject" =>
             view'.error = "refresh" /\ ~view'.refreshing]_vars

\* a refresh has just failed with photos in the list and one selected
C26_Witness ==
  /\ viewEv.handler = "refreshPhotos" /\ viewEv.op = "reject"
  /\ view.photos # <<>>
  /\ view.selectedPhoto # <<>>
  /\ view.error = "refresh"

\* C27: a date-range change invokes the range fetch and replaces the working
\* set: once onDateRangeChanged(range) has completed successfully, every
\* photo in the list of the view has a timestamp within [range.startDate,
\* range.endDate].
C27_RangeChangeShowsRange ==
  (viewEv.handler = "onDateRangeChanged" /\ viewEv.op = "return") =>
     \A i \in 1..Len(view.photos) :
        /\ view.photos[i].timestamp >= viewEv.range[1]
        /\ view.photos[i].timestamp <= viewEv.range[2]

\* C28: when a run of the progressive metadata loading finishes for M
\* photos of which k lookups failed, with 0 < k < M, the graph shows the
\* warning naming k of M, its error is null and the chart holds the M - k
\* successful points; the error is set only when no lookup succeeded.
C28_PartialFailureWarns ==
  [][mdEv'.finished # <<>> =>
       LET f == mdEv'.finished[Len(mdEv'.finished)]
       IN /\ (f.failed > 0 /\ f.points > 0) =>
                /\ graph'.warning = <<f.failed, f.failed + f.points>>
                /\ graph'.error = "null"
                /\ graph'.chart = f.points
          /\ (graph'.error = "noValid" /\ graph.error # "noValid") =>
                \E e \in 1..Len(mdEv'.finished) :
                   mdEv'.finished[e].points = 0]_vars

\* C29: getMetadata(key) never rejects: for a missing object, an empty
\* body, malformed JSON or a transport error it resolves to null, and the
\* failed lookup leaves the metadata cache as it was, so that a later call
\* for the key fetches again.
C29_GetMetadataNeverRejects ==
  [][mdEv'.op = "settled" =>
       /\ mdEv'.result \in {"value", "null"}
       /\ mdEv'.outcome \notin Parsed =>
            /\ mdEv'.result = "null"
            /\ metadataCache' = metadataCache]_vars

C29_Witness ==
  /\ mdEv.op = "settled"
  /\ mdEv.outcome = "transport"
  /\ mdEv.result = "null"
  /\ ~CacheHas(metadataCache, mdEv.key)

\* C30: in every cache generation the grows that contribute to it list
\* today (UTC), today-1, today-2, ... consecutively: a generation starts with
\* the cursor at today, and every grow that completes has listed the bucket
\* the cursor is at and moves the cursor one day back, so that no day is
\* skipped and none is listed twice, also when clearCache came while a grow
\* of the generation before was in flight.
C30_BucketsConsecutive ==
  [][/\ ev'.op = "clear" => currentDate' = initCurrentDate
     /\ ev'.grown =>
          /\ ev'.bucket = UTCDay(currentDate)
          /\ UTCDay(currentDate') = UTCDay(currentDate) - 1]_vars

\* C31: every getPhotosPage call terminates provided every list call and
\* every URL generation returns: unless clearCache is called again and again
\* for ever, a call that has started returns, whatever the store holds and
\* whatever page it asks for.
C31_EveryCallTerminates ==
  \A c \in Calls :
     \/ []<>(ev.op = "clear")
     \/ (pc[c] # "idle") ~> (pc[c] = "idle")

\* C32: under any interleaving of loadPhotos, loadMorePhotos and
\* refreshPhotos the list of the view never holds two entries with the same
\* key and stays sorted newest first.
C32_ViewListDistinctSorted ==
  NoRepeatedKey(view.photos) /\ NewestFirst(view.photos)

\* C33: when getPhotosPage fails inside loadMorePhotos, the page the view
\* requests next (currentPage + 1) is the page that failed.
C33_FailedPageAskedAgain ==
  [][(viewEv'.handler = "loadMorePhotos" /\ viewEv'.op = "reject") =>
        view'.currentPage + 1 = ev'.pageIndex]_vars

\* C34: for one key, a getPresignedUrl call issued while another is still
\* awaiting the credentials or the signature causes no second URL
\* generation, and every call of the overlap receives the same URL.
C34_OverlapSignsOnce ==
  [][/\ urlEv'.op = "miss" => \A c \in UrlCalls : urlPc[c] = "idle"
     /\ (urlEv'.op = "signed" /\ CacheFresh(urlCache, clock)) =>
           urlEv'.url = urlCache.url]_vars

\* C35: after clearCaches has returned, urlCache never again holds a URL
\* signed with the credentials of before: a getPresignedUrl call that was
\* in flight when clearCaches ran leaves the cleared cache as it is when it
\* completes.
C35_OvertakenCallInsertsNothing ==
  [][\A c \in UrlCalls :
        (urlPc[c] = "overtaken" /\ urlPc'[c] = "idle") =>
           urlCache' = urlCache]_vars

\* C36: within one getPhotos, getNewPhotosSince or loadMoreDaysFromS3 call
\* the getPresignedUrl calls in flight at the same time never exceed the
\* batch size, however many photos were listed.
C36_UrlBatchBounded ==
  /\ FetchUrlsInFlight <= MaxSignBatch
  /\ \A c \in Calls : GrowUrlsInFlight(c) <= MaxSignBatch

\* C37: a caller that follows the continuation token of the date-range
\* paginator from the first page to the last, with the same range arguments
\* on every call, causes one range listing at most and is returned every
\* photo of the range once, newest first
C37_RangeWalkListsOnce ==
  rangePager.pc = "done" =>
     /\ rangePager.listings <= 1
     /\ NoRepeatedKey(rangePager.out)
     /\ NewestFirst(rangePager.out)
     /\ KeysOf(rangePager.out) = rangePager.first

\* C38: when a run of the graph has ended, a point is flagged isReboot
\* exactly when its uptime is lower than that of the point before it in
\* time; with uptime rising along the capture times no point is flagged
C38_RebootFlagChronological ==
  uptimeRun.pc = "done" =>
     \A k \in 1..Len(uptimeRun.dataPoints) :
        uptimeRun.dataPoints[k].isReboot <=>
           /\ k > 1
           /\ uptimeRun.dataPoints[k].uptime <
                 uptimeRun.dataPoints[k - 1].uptime

\* C39: whenever no handler of the view awaits, selectedPhoto is null or a
\* photo whose key is in the list of the view
C39_SelectionInList ==
  (/\ \A c \in Calls : waiting.page[c] = Nobody
   /\ waiting.fetch = Nobody) =>
     \/ view.selectedPhoto = <<>>
     \/ view.selectedPhoto[1].key \in KeysOf(view.photos)

====
